---- MODULE Spec2Model ----
(***************************************************************************)
(* Model of bot/config.py: the Config settings class (pydantic-settings)   *)
(* and the module-level statement that loads it or exits.                  *)
(*                                                                         *)
(* What class Config inherits from BaseSettings is modelled as far as the  *)
(* declarations of the file select it:                                     *)
(*   - a source reads one text per field; the text of a list or dict field *)
(*     is decoded as JSON by the source, and a text that is no JSON raises *)
(*     SettingsError there, before any validator runs;                     *)
(*   - the sources returned by settings_customise_sources are called in    *)
(*     order and merged so that an earlier source overrides a later one;   *)
(*   - the merged values are validated field by field (mode="before"       *)
(*     validators first), all failures gathered in one ValidationError;    *)
(*   - a field no source gives takes its default, which is not validated.  *)
(* Keys are the field names (the case-insensitive match of variable names  *)
(* and keys that name no field are left out).                              *)
(*                                                                         *)
(* Text is a sequence of one-character strings, so that decoding and       *)
(* validation are computed on the characters.  Integers are kept as their  *)
(* canonical decimal text (Python integers are unbounded; the identifiers  *)
(* of lines 55-59 do not fit a machine word).                              *)
(***************************************************************************)
EXTENDS Naturals, Sequences, FiniteSets

(***************************************************************************)
(* Python values                                                           *)
(***************************************************************************)
\* A Python value: t is its type, s its text (int: canonical decimal,
\* bool: "1"/"0", str: the characters), xs the items of a list or the values
\* of a dict, ks the keys of a dict.
Val(t, s, xs, ks) == [t |-> t, s |-> s, xs |-> xs, ks |-> ks]
PyNone == Val("none", <<>>, <<>>, <<>>)
PyInt(s) == Val("int", s, <<>>, <<>>)
PyBool(b) == Val("bool", IF b THEN <<"1">> ELSE <<"0">>, <<>>, <<>>)
PyStr(s) == Val("str", s, <<>>, <<>>)
PyUrl(s) == Val("url", s, <<>>, <<>>)
PyList(xs) == Val("list", <<>>, xs, <<>>)
PyDict(ks, xs) == Val("dict", <<>>, xs, ks)

Digits == {"0", "1", "2", "3", "4", "5", "6", "7", "8", "9"}
Whitespace == {" "}

\* First index >= i of s that holds no whitespace (Len(s)+1 if none).
RECURSIVE SkipWs(_, _)
SkipWs(s, i) == IF i <= Len(s) /\ s[i] \in Whitespace THEN SkipWs(s, i + 1) ELSE i

\* First index >= i of s that holds no digit.
RECURSIVE DigitsEnd(_, _)
DigitsEnd(s, i) == IF i <= Len(s) /\ s[i] \in Digits THEN DigitsEnd(s, i + 1) ELSE i

\* First index >= i of s that holds c (Len(s)+1 if none).
RECURSIVE Find(_, _, _)
Find(s, c, i) == IF i <= Len(s) /\ s[i] # c THEN Find(s, c, i + 1) ELSE i

\* Whether s holds the text w from index i on.
StartsWith(s, i, w) ==
    /\ i + Len(w) - 1 <= Len(s)
    /\ \A k \in 1..Len(w) : s[i + k - 1] = w[k]

\* s without its leading and trailing whitespace.
RECURSIVE RStrip(_)
RStrip(s) ==
    IF Len(s) > 0 /\ s[Len(s)] \in Whitespace THEN RStrip(SubSeq(s, 1, Len(s) - 1)) ELSE s
Strip(s) == LET r == RStrip(s) IN SubSeq(r, SkipWs(r, 1), Len(r))

\* The canonical decimal text of the integer written as sign and digits:
\* no leading zeros, no sign on zero, no plus sign.
RECURSIVE StripZeros(_)
StripZeros(d) == IF Len(d) > 1 /\ d[1] = "0" THEN StripZeros(Tail(d)) ELSE d
Canonical(neg, d) ==
    LET z == StripZeros(d)
    IN IF neg /\ z # <<"0">> THEN <<"-">> \o z ELSE z

(***************************************************************************)
(* json.loads, which the settings sources apply to the raw text of a       *)
(* complex (list or dict) field.  Numbers are integers: the inputs hold no *)
(* fraction or exponent.  Strings hold no escapes.                         *)
(***************************************************************************)
Fail == [ok |-> FALSE, v |-> PyNone, i |-> 0]
Ok(v, i) == [ok |-> TRUE, v |-> v, i |-> i]

\* -?(0|[1-9][0-9]*) at index i.
ScanNumber(s, i) ==
    LET neg == i <= Len(s) /\ s[i] = "-"
        j == IF neg THEN i + 1 ELSE i
        k == IF j <= Len(s) /\ s[j] = "0" THEN j + 1 ELSE DigitsEnd(s, j)
    IN IF k = j THEN Fail ELSE Ok(PyInt(Canonical(neg, SubSeq(s, j, k - 1))), k)

\* A string whose opening quote is at index i.
ScanString(s, i) ==
    LET k == Find(s, "\"", i + 1)
    IN IF k > Len(s) THEN Fail ELSE Ok(PyStr(SubSeq(s, i + 1, k - 1)), k + 1)

RECURSIVE ScanValue(_, _)
RECURSIVE ScanItems(_, _, _)
RECURSIVE ScanPairs(_, _, _, _)

\* The items of an array; i is at the first character of an item.
ScanItems(s, i, acc) ==
    LET r == ScanValue(s, i)
        j == SkipWs(s, r.i)
    IN IF ~r.ok \/ j > Len(s) THEN Fail
       ELSE IF s[j] = "]" THEN Ok(PyList(Append(acc, r.v)), j + 1)
       ELSE IF s[j] = "," THEN ScanItems(s, SkipWs(s, j + 1), Append(acc, r.v))
       ELSE Fail

\* The members of an object; i is at the opening quote of a key.
ScanPairs(s, i, ks, xs) ==
    IF i > Len(s) \/ s[i] # "\"" THEN Fail
    ELSE
    LET key == ScanString(s, i)
        c == SkipWs(s, key.i)
    IN IF ~key.ok \/ c > Len(s) \/ s[c] # ":" THEN Fail
       ELSE
       LET r == ScanValue(s, SkipWs(s, c + 1))
           j == SkipWs(s, r.i)
       IN IF ~r.ok \/ j > Len(s) THEN Fail
          ELSE IF s[j] = "}"
               THEN Ok(PyDict(Append(ks, key.v.s), Append(xs, r.v)), j + 1)
          ELSE IF s[j] = ","
               THEN ScanPairs(s, SkipWs(s, j + 1), Append(ks, key.v.s), Append(xs, r.v))
          ELSE Fail

\* One JSON value at index i.
ScanValue(s, i) ==
    IF i > Len(s) THEN Fail
    ELSE IF s[i] = "\"" THEN ScanString(s, i)
    ELSE IF s[i] = "[" THEN
        LET j == SkipWs(s, i + 1)
        IN IF j <= Len(s) /\ s[j] = "]" THEN Ok(PyList(<<>>), j + 1)
           ELSE ScanItems(s, j, <<>>)
    ELSE IF s[i] = "{" THEN
        LET j == SkipWs(s, i + 1)
        IN IF j <= Len(s) /\ s[j] = "}" THEN Ok(PyDict(<<>>, <<>>), j + 1)
           ELSE ScanPairs(s, j, <<>>, <<>>)
    ELSE IF StartsWith(s, i, <<"t", "r", "u", "e">>) THEN Ok(PyBool(TRUE), i + 4)
    ELSE IF StartsWith(s, i, <<"f", "a", "l", "s", "e">>) THEN Ok(PyBool(FALSE), i + 5)
    ELSE IF StartsWith(s, i, <<"n", "u", "l", "l">>) THEN Ok(PyNone, i + 4)
    ELSE IF s[i] = "-" \/ s[i] \in Digits THEN ScanNumber(s, i)
    ELSE Fail

\* json.loads(s): one value between optional whitespace, and nothing after it;
\* ok = FALSE is the JSONDecodeError (a ValueError).
JsonLoads(s) ==
    LET r == ScanValue(s, SkipWs(s, 1))
    IN IF r.ok /\ SkipWs(s, r.i) = Len(s) + 1 THEN r ELSE Fail

(***************************************************************************)
(* The schema: class Config, lines 35-63                                   *)
(***************************************************************************)
\* The fields in declaration order.
FieldOrder ==
    <<"PORT", "HOSTNAME", "HTTP_SERVER", "API_ID", "API_HASH", "BOT_TOKEN", "BOT_WORKER",
      "BOT_SESSION", "BOT_MAX_MESSAGE_CACHE_SIZE", "MONGO_DB_URL", "MONGO_DB_NAME",
      "RATE_LIMITER", "BACKUP_CHANNEL", "ROOT_ADMINS_ID", "PRIVATE_REQUEST",
      "PROTECT_CONTENT", "FORCE_SUB_CHANNELS", "AUTO_GENERATE_LINK", "channels_n_invite">>
Fields == {FieldOrder[k] : k \in 1..Len(FieldOrder)}

IntFields == {"PORT", "API_ID", "BOT_WORKER", "BOT_MAX_MESSAGE_CACHE_SIZE", "BACKUP_CHANNEL"}
StrFields == {"HOSTNAME", "API_HASH", "BOT_TOKEN", "BOT_SESSION", "MONGO_DB_NAME"}
BoolFields ==
    {"HTTP_SERVER", "RATE_LIMITER", "PRIVATE_REQUEST", "PROTECT_CONTENT", "AUTO_GENERATE_LINK"}
ListFields == {"ROOT_ADMINS_ID", "FORCE_SUB_CHANNELS"}

\* The declared type of a field.
FieldType(f) ==
    IF f \in IntFields THEN "int"
    ELSE IF f \in StrFields THEN "str"
    ELSE IF f \in BoolFields THEN "bool"
    ELSE IF f \in ListFields THEN "list"
    ELSE IF f = "MONGO_DB_URL" THEN "url"
    ELSE "dict"

\* A constraint that lets the plain mongodb scheme through as well.
allowed_schemes_any ==
    {<<"m", "o", "n", "g", "o", "d", "b", "+", "s", "r", "v">>, <<"m", "o", "n", "g", "o", "d", "b">>}

\* MongoSRVDsn: UrlConstraints(allowed_schemes=["mongodb+srv"]).
allowed_schemes == {<<"m", "o", "n", "g", "o", "d", "b", "+", "s", "r", "v">>}

\* The class-level default of each field.  Every field has one: pydantic
\* stores a default as written, without validating it.
Default(f) ==
    CASE f = "PORT" -> PyInt(<<"8", "0", "8", "0">>)
      [] f = "HOSTNAME" -> PyStr(<<"0", ".", "0", ".", "0", ".", "0">>)
      [] f = "HTTP_SERVER" -> PyBool(TRUE)
      [] f = "API_ID" -> PyInt(<<"2", "5", "4", "8", "2", "7", "4", "4">>)
      [] f = "API_HASH" -> PyStr(
        <<"e", "0", "3", "2", "d", "6", "e", "5", "c", "0", "5", "a", "5", "d", "0", "b", "f", "e", "6", "9",
          "1", "4", "8", "0", "5", "4", "1", "d", "6", "4", "f", "4">>)
      [] f = "BOT_TOKEN" -> PyStr(
        <<"7", "9", "9", "9", "0", "1", "5", "2", "7", "3", ":", "A", "A", "G", "j", "Q", "t", "w", "x", "P",
          "b", "a", "O", "W", "o", "f", "V", "9", "Y", "Y", "H", "2", "P", "Z", "e", "G", "V", "7", "3", "0",
          "c", "k", "3", "h", "_", "w">>)
      [] f = "BOT_WORKER" -> PyInt(<<"8">>)
      [] f = "BOT_SESSION" -> PyStr(
        <<"Z", "a", "w", "s", "-", "F", "i", "l", "e", "-", "S", "h", "a", "r", "e">>)
      [] f = "BOT_MAX_MESSAGE_CACHE_SIZE" -> PyInt(<<"1", "0", "0">>)
      [] f = "MONGO_DB_URL" -> PyStr(
        <<"m", "o", "n", "g", "o", "d", "b", "+", "s", "r", "v", ":", "/", "/", "e", "m", "a", "i", "l", "b",
          "o", "t", ":", "u", "t", "k", "a", "r", "s", "h", "2", "0", "0", "8", "@", "c", "l", "u", "s", "t",
          "e", "r", "0", ".", "0", "8", "u", "d", "h", ".", "m", "o", "n", "g", "o", "d", "b", ".", "n", "e",
          "t", "/", "?", "r", "e", "t", "r", "y", "W", "r", "i", "t", "e", "s", "=", "t", "r", "u", "e", "&",
          "w", "=", "m", "a", "j", "o", "r", "i", "t", "y", "&", "a", "p", "p", "N", "a", "m", "e", "=", "C",
          "l", "u", "s", "t", "e", "r", "0">>)
      [] f = "MONGO_DB_NAME" -> PyStr(
        <<"Z", "a", "w", "s", "-", "F", "i", "l", "e", "-", "S", "h", "a", "r", "e">>)
      [] f = "RATE_LIMITER" -> PyBool(TRUE)
      [] f = "BACKUP_CHANNEL" -> PyInt(
        <<"-", "1", "0", "0", "2", "4", "8", "5", "5", "5", "2", "2", "6", "9">>)
      [] f = "ROOT_ADMINS_ID" -> PyList(<<
        PyInt(<<"2", "0", "0", "9", "5", "0", "9", "2", "2", "8">>),
        PyInt(<<"7", "7", "5", "8", "7", "0", "8", "5", "7", "9">>)>>)
      [] f = "PRIVATE_REQUEST" -> PyBool(FALSE)
      [] f = "PROTECT_CONTENT" -> PyBool(TRUE)
      [] f = "FORCE_SUB_CHANNELS" -> PyList(<<PyInt(
        <<"-", "1", "0", "0", "2", "2", "0", "9", "8", "4", "4", "5", "3", "9">>)>>)
      [] f = "AUTO_GENERATE_LINK" -> PyBool(TRUE)
      [] OTHER -> PyDict(<<>>, <<>>)


(***************************************************************************)
(* pydantic's validation of one field (lax mode)                           *)
(***************************************************************************)
Bad == [ok |-> FALSE, v |-> PyNone]
Good(v) == [ok |-> TRUE, v |-> v]

\* str -> int: optional sign, then digits only, surrounding whitespace ignored.
StrToInt(s) ==
    LET t == Strip(s)
        signed == Len(t) > 0 /\ t[1] \in {"-", "+"}
        d == IF signed THEN Tail(t) ELSE t
    IN IF Len(d) > 0 /\ DigitsEnd(d, 1) = Len(d) + 1
       THEN Good(PyInt(Canonical(signed /\ t[1] = "-", d)))
       ELSE Bad

BoolTrue == {<<"1">>, <<"o", "n">>, <<"t">>, <<"t", "r", "u", "e">>, <<"y">>, <<"y", "e", "s">>}
BoolFalse == {<<"0">>, <<"o", "f", "f">>, <<"f">>, <<"f", "a", "l", "s", "e">>, <<"n">>, <<"n", "o">>}

\* An int field.
ValidateInt(v) ==
    IF v.t = "int" THEN Good(v)
    ELSE IF v.t = "bool" THEN Good(PyInt(v.s))
    ELSE IF v.t = "str" THEN StrToInt(v.s)
    ELSE Bad

\* A str field.
ValidateStr(v) == IF v.t = "str" THEN Good(v) ELSE Bad

\* A bool field.
ValidateBool(v) ==
    IF v.t = "bool" THEN Good(v)
    ELSE IF v.t = "int" /\ v.s \in {<<"0">>, <<"1">>} THEN Good(PyBool(v.s = <<"1">>))
    ELSE IF v.t = "str" /\ v.s \in BoolTrue THEN Good(PyBool(TRUE))
    ELSE IF v.t = "str" /\ v.s \in BoolFalse THEN Good(PyBool(FALSE))
    ELSE Bad

\* The scheme of a URL text: what precedes "://", if a host follows; <<>> if
\* the text has no such form.
SchemeOf(s) ==
    LET c == Find(s, ":", 1)
    IN IF c > 1 /\ StartsWith(s, c, <<":", "/", "/">>) /\ Len(s) > c + 2
       THEN SubSeq(s, 1, c - 1)
       ELSE <<>>

\* MONGO_DB_URL: a URL whose scheme is one of allowed_schemes.
ValidateUrl(v) ==
    IF v.t = "url" THEN Good(v)
    ELSE IF v.t = "str" /\ SchemeOf(v.s) \in allowed_schemes THEN Good(PyUrl(v.s))
    ELSE Bad

\* list[int]: a list, each item validated as an int.
ValidateListInt(v) ==
    IF v.t = "list" /\ \A k \in 1..Len(v.xs) : ValidateInt(v.xs[k]).ok
    THEN Good(PyList([k \in 1..Len(v.xs) |-> ValidateInt(v.xs[k]).v]))
    ELSE Bad

\* dict[str, ChannelInfo], ChannelInfo a TypedDict of is_private, invite_link
\* and channel_id.
ChannelInfoKeys == {<<"i", "s", "_", "p", "r", "i", "v", "a", "t", "e">>, <<"i", "n", "v", "i", "t", "e", "_", "l", "i", "n", "k">>, <<"c", "h", "a", "n", "n", "e", "l", "_", "i", "d">>}
ValidateChannelInfo(v) ==
    /\ v.t = "dict"
    /\ {v.ks[k] : k \in 1..Len(v.ks)} = ChannelInfoKeys
    /\ \A k \in 1..Len(v.ks) :
          CASE v.ks[k] = <<"i", "s", "_", "p", "r", "i", "v", "a", "t", "e">> -> ValidateBool(v.xs[k]).ok
            [] v.ks[k] = <<"i", "n", "v", "i", "t", "e", "_", "l", "i", "n", "k">> -> ValidateStr(v.xs[k]).ok
            [] OTHER -> ValidateInt(v.xs[k]).ok
ValidateDict(v) ==
    IF v.t = "dict" /\ \A k \in 1..Len(v.xs) : ValidateChannelInfo(v.xs[k])
    THEN Good(v)
    ELSE Bad

\* A validator that forgets to wrap a single integer.
convert_int_to_list_unwrapped(value) == value

\* @field_validator("ROOT_ADMINS_ID", "FORCE_SUB_CHANNELS", mode="before").
\* isinstance(value, int) holds of a bool too.
convert_int_to_list(value) ==
    IF value.t \in {"int", "bool"} THEN PyList(<<value>>) ELSE value

\* @field_validator("channels_n_invite", mode="before").
ignore_keys(value) == PyDict(<<>>, <<>>)

\* The before-validator of a field, then the validation of its type.
ValidateField(f, v) ==
    CASE FieldType(f) = "int" -> ValidateInt(v)
      [] FieldType(f) = "str" -> ValidateStr(v)
      [] FieldType(f) = "bool" -> ValidateBool(v)
      [] FieldType(f) = "url" -> ValidateUrl(v)
      [] FieldType(f) = "list" -> ValidateListInt(convert_int_to_list(v))
      [] OTHER -> ValidateDict(ignore_keys(v))

(***************************************************************************)
(* pydantic-settings: the sources and the merge of what they yield         *)
(***************************************************************************)
NoText == [f \in {} |-> <<>>]
NoValues == [f \in {} |-> PyNone]

\* A list or dict field is complex: a source decodes its raw text as JSON.
IsComplex(f) == FieldType(f) \in {"list", "dict"}

\* EnvSettingsSource.prepare_field_value: ok = FALSE is the ValueError of a
\* complex field whose text is no JSON.
prepare_field_value(f, raw) ==
    IF IsComplex(f) THEN JsonLoads(raw) ELSE Ok(PyStr(raw), 0)

\* What the source prepares from each text it reads.
Prepared(text) == [f \in DOMAIN text |-> prepare_field_value(f, text[f])]

\* The first field, in declaration order from the k-th on, whose text the
\* source could not prepare ("" if none).
RECURSIVE FirstUnparsable(_, _)
FirstUnparsable(p, k) ==
    IF k > Len(FieldOrder) THEN ""
    ELSE IF FieldOrder[k] \in DOMAIN p /\ ~p[FieldOrder[k]].ok THEN FieldOrder[k]
    ELSE FirstUnparsable(p, k + 1)

\* The outcome of a source from what it prepared: err names the field of the
\* SettingsError it raises at the first text it cannot prepare, data holds the
\* prepared values that are not None.
SourceResult(p) ==
    [err |-> FirstUnparsable(p, 1),
     data |-> [f \in {g \in DOMAIN p : p[g].ok /\ p[g].v # PyNone} |-> p[f].v]]

\* EnvSettingsSource.__call__ (DotEnvSettingsSource and SecretsSettingsSource
\* inherit it) on the key/value text it reads.
EnvSourceCall(text) == SourceResult(Prepared(text))

\* A source: its class and what it reads.
Source(cls, text, kwargs) == [cls |-> cls, text |-> text, kwargs |-> kwargs]
SourceCall(src) ==
    IF src.cls = "InitSettingsSource" THEN [err |-> "", data |-> src.kwargs]
    ELSE EnvSourceCall(src.text)

\* The index of key k in ks (0 if absent).
RECURSIVE IndexOf(_, _, _)
IndexOf(ks, k, i) ==
    IF i > Len(ks) THEN 0 ELSE IF ks[i] = k THEN i ELSE IndexOf(ks, k, i + 1)

\* deep_update on two dict values: a updated with the first n members of b,
\* dicts under the same key merged recursively.
RECURSIVE DeepUpdateDict(_, _, _)
DeepUpdateDict(a, b, n) ==
    IF n = 0 THEN a
    ELSE
    LET u == DeepUpdateDict(a, b, n - 1)
        p == IndexOf(u.ks, b.ks[n], 1)
    IN IF p = 0 THEN PyDict(Append(u.ks, b.ks[n]), Append(u.xs, b.xs[n]))
       ELSE IF u.xs[p].t = "dict" /\ b.xs[n].t = "dict"
            THEN PyDict(u.ks, [u.xs EXCEPT ![p] =
                                 DeepUpdateDict(u.xs[p], b.xs[n], Len(b.xs[n].ks))])
       ELSE PyDict(u.ks, [u.xs EXCEPT ![p] = b.xs[n]])

\* deep_update(mapping, updating): the keys of updating override.
deep_update(mapping, updating) ==
    [f \in DOMAIN mapping \cup DOMAIN updating |->
        IF f \notin DOMAIN updating THEN mapping[f]
        ELSE IF f \in DOMAIN mapping /\ mapping[f].t = "dict" /\ updating[f].t = "dict"
             THEN DeepUpdateDict(mapping[f], updating[f], Len(updating[f].ks))
        ELSE updating[f]]

\* One round of the loop of BaseSettings._settings_build_values,
\*   for source in sources: state = deep_update(source(), state)
\* b is the outcome so far, r what the source of class cls yields.  A
\* SettingsError of a source ends the loop.
BuildStep(b, r, cls) ==
    IF b.err # "" THEN b
    ELSE IF r.err # "" THEN [err |-> r.err, cls |-> cls, state |-> NoValues]
    ELSE [err |-> "", cls |-> "", state |-> deep_update(r.data, b.state)]

\* BaseSettings._settings_build_values over the first n sources: a source
\* listed earlier overrides a later one.
RECURSIVE BuildValues(_, _)
BuildValues(sources, n) ==
    IF n = 0 THEN [err |-> "", cls |-> "", state |-> NoValues]
    ELSE BuildStep(BuildValues(sources, n - 1), SourceCall(sources[n]), sources[n].cls)

\* The selection pydantic-settings makes when a class customises nothing:
\* the four sources it built, in its own order.
default_sources(init_settings, env_settings, dotenv_settings, file_secret_settings) ==
    <<init_settings, env_settings, dotenv_settings, file_secret_settings>>

\* Config.settings_customise_sources: the two sources the class reads, the one
\* with the highest priority first.  Both are built anew from the class, which
\* names the file (model_config, env_file) ; init_settings and
\* file_secret_settings are dropped.
settings_customise_sources(init_settings, env_settings, dotenv_settings, file_secret_settings) ==
    <<Source("DotEnvSettingsSource", dotenv_settings.text, NoValues),
      Source("EnvSettingsSource", env_settings.text, NoValues)>>

\* A schema whose PORT is declared without a default.
RequiredPort == {"PORT"}

\* The fields declared without a default.
Required == {f \in Fields : FALSE}

\* No exception.
NoExc == [cls |-> "", fields |-> {}, source |-> ""]

\* The validation of every value the sources gave.
Validated(state) == [f \in DOMAIN state |-> ValidateField(f, state[f])]

\* The outcome of the constructor from the merged values b and their
\* validation: the SettingsError of a source, or a ValidationError that names
\* every failing field, or the object.  A field no source gives takes its
\* default.
Outcome(b, checked) ==
    IF b.err # ""
    THEN [exc |-> [cls |-> "SettingsError", fields |-> {b.err}, source |-> b.cls],
          obj |-> NoValues]
    ELSE IF {f \in DOMAIN checked : ~checked[f].ok} \cup (Required \ DOMAIN checked) # {}
    THEN [exc |-> [cls |-> "ValidationError",
                   fields |-> {f \in DOMAIN checked : ~checked[f].ok}
                              \cup (Required \ DOMAIN checked),
                   source |-> ""],
          obj |-> NoValues]
    ELSE [exc |-> NoExc,
          obj |-> [f \in Fields |-> IF f \in DOMAIN checked THEN checked[f].v
                                    ELSE Default(f)]]

\* The values the sources the class selects yield, merged.
Build(sources) == BuildValues(sources, Len(sources))
Construct(b) == Outcome(b, Validated(b.state))

\* Config(**kwargs): the sources are built, customised, called and merged, and
\* the merged values validated.
NewConfig(kw, env, dotenv_file, secrets_dir) ==
    Construct(Build(settings_customise_sources(
        Source("InitSettingsSource", NoText, kw),
        Source("EnvSettingsSource", env, NoValues),
        Source("DotEnvSettingsSource", dotenv_file, NoValues),
        Source("SecretsSettingsSource", secrets_dir, NoValues))))

(***************************************************************************)
(* The process: what it is given, then lines 96-100                        *)
(***************************************************************************)
\* How many values the process is given in all, over every source.
MaxVars == 2

\* The raw texts a variable of the environment or a line of the .env file
\* may hold for a field.
RawSamples(f) ==
    CASE FieldType(f) = "int" ->
            {<<"-", "7">>, <<"x">>}
      [] FieldType(f) = "str" ->
            {<<"c", "d">>}
      [] FieldType(f) = "bool" ->
            {<<"0">>, <<"m", "a", "y", "b", "e">>}
      [] FieldType(f) = "url" ->
            \* mongodb+srv://h  mongodb+srv://g  mongodb://h  http://h
            {<<"m", "o", "n", "g", "o", "d", "b", "+", "s", "r", "v", ":", "/", "/", "h">>,
             <<"m", "o", "n", "g", "o", "d", "b", "+", "s", "r", "v", ":", "/", "/", "g">>,
             <<"m", "o", "n", "g", "o", "d", "b", ":", "/", "/", "h">>,
             <<"h", "t", "t", "p", ":", "/", "/", "h">>}
      [] FieldType(f) = "list" ->
            \* 5  [1,2]  [2, 1]  1, 2,3  1,a,3  [1,"a"]
            {<<"5">>,
             <<"[", "1", ",", "2", "]">>,
             <<"[", "2", ",", " ", "1", "]">>,
             <<"1", ",", " ", "2", ",", "3">>,
             <<"1", ",", "a", ",", "3">>,
             <<"[", "1", ",", "\"", "a", "\"", "]">>}
      [] OTHER ->
            \* {}  {"a":1}  x  {"a":{"is_private":true,"invite_link":"l","channel_id":1}}
            {<<"{", "}">>,
             <<"{", "\"", "a", "\"", ":", "1", "}">>,
             <<"x">>,
             <<"{", "\"", "a", "\"", ":", "{", "\"", "i", "s", "_", "p", "r", "i", "v", "a", "t", "e", "\"", ":", "t", "r", "u", "e", ",", "\"", "i", "n", "v", "i", "t", "e", "_", "l", "i", "n", "k", "\"", ":", "\"", "l", "\"", ",">>
                \o <<"\"", "c", "h", "a", "n", "n", "e", "l", "_", "i", "d", "\"", ":", "1", "}", "}">>}

\* The variables a full deployment exports, every one valid: those of the
\* credentials, the database, the channels and the modes.
DeployKeys == Fields \ {"PORT", "HOSTNAME", "HTTP_SERVER", "RATE_LIMITER", "channels_n_invite"}
DeployText(f) ==
    CASE FieldType(f) = "int" -> <<"8", "0">>
      [] FieldType(f) = "str" -> <<"a", "b">>
      [] FieldType(f) = "bool" -> <<"t", "r", "u", "e">>
      [] FieldType(f) = "url" -> <<"m", "o", "n", "g", "o", "d", "b", "+", "s", "r", "v", ":", "/", "/", "h">>
      [] OTHER -> <<"[", "1", ",", "2", "]">>

\* The fields a caller of Config offers a keyword argument or a secrets file
\* for, and the values offered.
OtherKeys == {"PORT", "ROOT_ADMINS_ID"}
KwargSamples(f) == IF f = "PORT" THEN {PyInt(<<"1">>)} ELSE {PyList(<<PyInt(<<"9">>)>>)}
SecretSamples(f) == IF f = "PORT" THEN {<<"2">>} ELSE {<<"[", "8", "]">>}

VARIABLES
    environ,    \* os.environ: field -> text
    dotenv,     \* the .env file: field -> text
    kwargs,     \* keyword arguments offered to Config: field -> value
    secrets,    \* secrets files offered to Config: field -> text
    pc,         \* "setup", "loaded", "except", "exiting", "exited", "imported"
    config,     \* the module's name config: unbound (no field) or the object
    exc,        \* the exception the try block raised
    log,        \* the records the root logger emitted
    exit_code,  \* <<>> while the process runs, <<n>> once it exited with n
    loads,      \* how many times Config was constructed
    seen,       \* the config the importing components got
    deployed    \* whether the environment was set by a full deployment

vars == <<environ, dotenv, kwargs, secrets, pc, config, exc, log, exit_code, loads, seen, deployed>>
inputs == <<environ, dotenv, kwargs, secrets, deployed>>

\* How many values were given one by one.
Given ==
    Cardinality(DOMAIN environ \ (IF deployed THEN DeployKeys ELSE {}))
        + Cardinality(DOMAIN dotenv) + Cardinality(DOMAIN kwargs) + Cardinality(DOMAIN secrets)

\* m with key k set to v.
Put(m, k, v) == [f \in DOMAIN m \cup {k} |-> IF f = k THEN v ELSE m[f]]

Init ==
    /\ environ = NoText
    /\ dotenv = NoText
    /\ kwargs = NoValues
    /\ secrets = NoText
    /\ pc = "setup"
    /\ config = NoValues
    /\ exc = NoExc
    /\ log = <<>>
    /\ exit_code = <<>>
    /\ loads = 0
    /\ seen = NoValues
    /\ deployed = FALSE

\* A deployment exports all its variables at once.
Deploy ==
    /\ pc = "setup" /\ ~deployed /\ Given = 0
    /\ environ' = [f \in DeployKeys |-> DeployText(f)]
    /\ deployed' = TRUE
    /\ UNCHANGED <<dotenv, kwargs, secrets, pc, config, exc, log, exit_code, loads, seen>>

\* A variable of the process environment is set before the process starts.
Setenv ==
    /\ pc = "setup" /\ Given < MaxVars
    /\ \E k \in Fields \ DOMAIN environ : \E v \in RawSamples(k) :
          environ' = Put(environ, k, v)
    /\ UNCHANGED <<dotenv, kwargs, secrets, pc, config, exc, log, exit_code, loads, seen, deployed>>

\* A KEY=VALUE line is written to the .env file before the process starts.
WriteDotenv ==
    /\ pc = "setup" /\ Given < MaxVars
    /\ \E k \in Fields \ DOMAIN dotenv : \E v \in RawSamples(k) :
          dotenv' = Put(dotenv, k, v)
    /\ UNCHANGED <<environ, kwargs, secrets, pc, config, exc, log, exit_code, loads, seen, deployed>>

\* A keyword argument is offered to the constructor.  Line 97 itself passes
\* none; a caller of the class may, and the sources the class selects decide
\* whether it counts.
OfferKwarg ==
    /\ pc = "setup" /\ Given < MaxVars
    /\ \E k \in OtherKeys \ DOMAIN kwargs : \E v \in KwargSamples(k) :
          kwargs' = Put(kwargs, k, v)
    /\ UNCHANGED <<environ, dotenv, secrets, pc, config, exc, log, exit_code, loads, seen, deployed>>

\* A secrets file is offered to the constructor.
OfferSecret ==
    /\ pc = "setup" /\ Given < MaxVars
    /\ \E k \in OtherKeys \ DOMAIN secrets : \E v \in SecretSamples(k) :
          secrets' = Put(secrets, k, v)
    /\ UNCHANGED <<environ, dotenv, kwargs, pc, config, exc, log, exit_code, loads, seen, deployed>>

\* The try block ends: config is bound, or r.exc is raised.
Bind(r) ==
    /\ exc' = r.exc
    /\ config' = r.obj
    /\ pc' = IF r.exc = NoExc THEN "loaded" ELSE "except"

\* Lines 96-97: try: config = Config().
Load ==
    /\ pc = "setup"
    /\ Bind(NewConfig(kwargs, environ, dotenv, secrets))
    /\ loads' = loads + 1
    /\ UNCHANGED <<inputs, log, exit_code, seen>>

\* An except clause that names ValidationError only.
CaughtValidationOnly == {"ValidationError"}

\* Line 98: the exceptions the except clause names.
Caught == {"ValidationError", "SettingsError"}

\* Line 99: logging.exception("Configuration Error"), one record at ERROR
\* with the exception's text, which names the fields of the exception.
LogRecord(e) ==
    [level |-> "ERROR", msg |-> "Configuration Error", exc |-> e.cls, fields |-> e.fields]

\* Lines 98-99: the handler logs a caught exception; another one propagates.
Handle ==
    /\ pc = "except"
    /\ log' = IF exc.cls \in Caught THEN Append(log, LogRecord(exc)) ELSE log
    /\ pc' = "exiting"
    /\ UNCHANGED <<inputs, config, exc, exit_code, loads, seen>>

\* Line 100: sys.exit(1) (an exception that propagates ends the interpreter
\* with status 1 as well).
Exit ==
    /\ pc = "exiting"
    /\ exit_code' = <<1>>
    /\ pc' = "exited"
    /\ UNCHANGED <<inputs, config, exc, log, loads, seen>>

\* The import of bot.config completes and the importing components get config.
Import ==
    /\ pc = "loaded"
    /\ seen' = config
    /\ pc' = "imported"
    /\ UNCHANGED <<inputs, config, exc, log, exit_code, loads>>

Next == Setenv \/ WriteDotenv \/ OfferKwarg \/ OfferSecret \/ Deploy \/ Load \/ Handle \/ Exit \/ Import

Spec == Init /\ [][Next]_vars

(***************************************************************************)
(* Properties                                                              *)
(***************************************************************************)
Done == pc # "setup"
Succeeded == pc \in {"loaded", "imported"}
Failed == pc \in {"except", "exiting", "exited"}

\* The texts the environment and the .env file give for field f.
GivenTexts(f) ==
    {environ[g] : g \in DOMAIN environ \cap {f}} \cup {dotenv[g] : g \in DOMAIN dotenv \cap {f}}
Absent(f) == f \notin DOMAIN environ \cup DOMAIN dotenv

\* Whether a text is a valid input for field f, and the value it stands for.
ValidText(f, raw) ==
    /\ prepare_field_value(f, raw).ok
    /\ ValidateField(f, prepare_field_value(f, raw).v).ok
ValueOf(f, raw) == ValidateField(f, prepare_field_value(f, raw).v).v

\* The fields the specification calls required, and those it calls optional.
RequiredBySpec ==
    {"API_ID", "API_HASH", "BOT_TOKEN", "BOT_WORKER", "BOT_SESSION",
     "BOT_MAX_MESSAGE_CACHE_SIZE", "MONGO_DB_URL", "MONGO_DB_NAME", "BACKUP_CHANNEL",
     "ROOT_ADMINS_ID", "PRIVATE_REQUEST", "PROTECT_CONTENT", "FORCE_SUB_CHANNELS",
     "AUTO_GENERATE_LINK"}
OptionalBySpec == Fields \ RequiredBySpec

EmptyMapping == PyDict(<<>>, <<>>)
IntList(texts) == PyList([k \in 1..Len(texts) |-> PyInt(texts[k])])

\* C1: for every key defined in the .env file and in the process environment
\* with different texts, both valid for the field, the loaded configuration
\* holds the value of the environment variable.
C1_EnvOverridesFile ==
    Succeeded =>
        \A k \in DOMAIN environ \cap DOMAIN dotenv :
            (/\ environ[k] # dotenv[k]
             /\ ValidText(k, environ[k])
             /\ ValidText(k, dotenv[k]))
            => config[k] = ValueOf(k, environ[k])

\* Whether value v satisfies the declared type and constraint of field f.
Satisfies(f, v) ==
    CASE FieldType(f) = "int" ->
            /\ v.t = "int"
            /\ Len(v.s) > 0
            /\ \A k \in 1..Len(v.s) : v.s[k] \in Digits \/ (k = 1 /\ v.s[k] = "-")
      [] FieldType(f) = "str" -> v.t = "str"
      [] FieldType(f) = "bool" -> v.t = "bool" /\ v.s \in {<<"0">>, <<"1">>}
      [] FieldType(f) = "url" -> v.t \in {"url", "str"} /\ SchemeOf(v.s) = <<"m", "o", "n", "g", "o", "d", "b", "+", "s", "r", "v">>
      [] FieldType(f) = "list" -> v.t = "list" /\ \A k \in 1..Len(v.xs) : v.xs[k].t = "int"
      [] OTHER -> v.t = "dict" /\ \A k \in 1..Len(v.xs) : v.xs[k].t = "dict"

C3_MissingRequiredFails ==
    \A f \in RequiredBySpec : (Done /\ Absent(f)) => (Failed /\ f \in exc.fields)

\* C4: channels_n_invite of every loaded configuration is the empty mapping,
\* whatever text is given for it, and a text given for it never makes load fail.
C4_MetadataDiscarded ==
    /\ Succeeded => config["channels_n_invite"] = EmptyMapping
    /\ Failed => "channels_n_invite" \notin exc.fields

\* C5: for ROOT_ADMINS_ID and for FORCE_SUB_CHANNELS, a text that is one integer
\* i loads as the one-element list [i], and a text that is a list of integers
\* loads as that list, its items in the same order; neither makes load fail.
C5_IntOrListNormalized ==
    \A f \in ListFields :
        Done =>
            /\ GivenTexts(f) = {<<"5">>} =>
                  /\ f \notin exc.fields
                  /\ Succeeded => config[f] = IntList(<<<<"5">>>>)
            /\ GivenTexts(f) = {<<"[", "1", ",", "2", "]">>} =>
                  /\ f \notin exc.fields
                  /\ Succeeded => config[f] = IntList(<<<<"1">>, <<"2">>>>)
            /\ GivenTexts(f) = {<<"[", "2", ",", " ", "1", "]">>} =>
                  /\ f \notin exc.fields
                  /\ Succeeded => config[f] = IntList(<<<<"2">>, <<"1">>>>)

\* A load succeeded with one list given as an integer and the other as a list.
C5_Witness ==
    /\ Succeeded
    /\ GivenTexts("ROOT_ADMINS_ID") = {<<"5">>}
    /\ config["ROOT_ADMINS_ID"] = IntList(<<<<"5">>>>)
    /\ GivenTexts("FORCE_SUB_CHANNELS") = {<<"[", "2", ",", " ", "1", "]">>}
    /\ config["FORCE_SUB_CHANNELS"] = IntList(<<<<"2">>, <<"1">>>>)

\* C6: FORCE_SUB_CHANNELS accepts a comma-separated string: the text "1, 2,3"
\* loads as [1, 2, 3], and the text "1,a,3" makes load fail with an error for
\* the field.
C6_CommaSeparatedAccepted ==
    Done =>
        /\ GivenTexts("FORCE_SUB_CHANNELS") = {<<"1", ",", " ", "2", ",", "3">>} =>
              /\ "FORCE_SUB_CHANNELS" \notin exc.fields
              /\ Succeeded => config["FORCE_SUB_CHANNELS"] = IntList(<<<<"1">>, <<"2">>, <<"3">>>>)
        /\ GivenTexts("FORCE_SUB_CHANNELS") = {<<"1", ",", "a", ",", "3">>} =>
              Failed /\ "FORCE_SUB_CHANNELS" \in exc.fields

\* C7: the database URI of every loaded configuration has scheme mongodb+srv;
\* a URI given with that scheme does not fail, and the same URI given with
\* another scheme makes load fail.
C7_SchemeEnforced ==
    /\ Succeeded => SchemeOf(config["MONGO_DB_URL"].s) = <<"m", "o", "n", "g", "o", "d", "b", "+", "s", "r", "v">>
    /\ (Done /\ GivenTexts("MONGO_DB_URL") # {}) =>
          /\ (\A u \in GivenTexts("MONGO_DB_URL") : SchemeOf(u) = <<"m", "o", "n", "g", "o", "d", "b", "+", "s", "r", "v">>)
                => "MONGO_DB_URL" \notin exc.fields
          /\ (\A u \in GivenTexts("MONGO_DB_URL") : SchemeOf(u) # <<"m", "o", "n", "g", "o", "d", "b", "+", "s", "r", "v">>)
                => Failed

\* A run given a mongodb:// URI failed on that field and exited.
C7_Witness ==
    /\ pc = "exited"
    /\ GivenTexts("MONGO_DB_URL") = {<<"m", "o", "n", "g", "o", "d", "b", ":", "/", "/", "h">>}
    /\ "MONGO_DB_URL" \in exc.fields

\* The fields for which a text is given and every text given is invalid.
InvalidInputs ==
    {f \in Fields : GivenTexts(f) # {} /\ \A raw \in GivenTexts(f) : ~ValidText(f, raw)}

\* C8: when a load attempt has several invalid inputs, one ERROR record
\* describes every failing field.
C8_AllFailuresReported ==
    pc \in {"exiting", "exited"} => (Len(log) = 1 /\ InvalidInputs \subseteq log[1].fields)

\* C9: when every field the specification calls required is given a valid
\* value and every optional field is absent from both sources, load succeeds;
\* and in a loaded configuration an absent optional field equals its
\* documented default: PORT 8080, HOSTNAME "0.0.0.0", RATE_LIMITER true,
\* channels_n_invite empty.
C9_DefaultsApplied ==
    /\ (/\ Done
        /\ \A f \in OptionalBySpec : Absent(f)
        /\ \A f \in RequiredBySpec :
              GivenTexts(f) # {} /\ \A raw \in GivenTexts(f) : ValidText(f, raw))
       => Succeeded
    /\ Succeeded =>
          /\ Absent("PORT") => config["PORT"] = PyInt(<<"8", "0", "8", "0">>)
          /\ Absent("HOSTNAME") => config["HOSTNAME"] = PyStr(<<"0", ".", "0", ".", "0", ".", "0">>)
          /\ Absent("RATE_LIMITER") => config["RATE_LIMITER"] = PyBool(TRUE)
          /\ Absent("channels_n_invite") => config["channels_n_invite"] = EmptyMapping

\* A full deployment with no optional field loaded with the defaults.
C9_Witness ==
    /\ deployed
    /\ Succeeded
    /\ \A f \in OptionalBySpec : Absent(f)
    /\ \A f \in RequiredBySpec : ~Absent(f)
    /\ config["PORT"] = PyInt(<<"8", "0", "8", "0">>)
    /\ config["RATE_LIMITER"] = PyBool(TRUE)

\* Whether the run ended as r: the same exception, the same object.
SameOutcome(r) == exc = r.exc /\ config = r.obj

\* C10: the outcome of load is the one the .env file, the process environment
\* and the defaults give alone: when keyword arguments or secrets files are
\* offered to Config, the try block ends as it does without them, no field
\* changed.
C10_OnlyFileAndEnviron ==
    /\ (pc \in {"loaded", "except"} /\ (kwargs # NoValues \/ secrets # NoText))
          => SameOutcome(NewConfig(NoValues, environ, dotenv, NoText))
    /\ (Succeeded /\ Absent("PORT")) => config["PORT"] = PyInt(<<"8", "0", "8", "0">>)

\* A load succeeded with PORT offered as a keyword argument and as a secrets
\* file only, and PORT is the default.
C10_Witness ==
    /\ Succeeded
    /\ "PORT" \in DOMAIN kwargs
    /\ "PORT" \in DOMAIN secrets
    /\ Absent("PORT")
    /\ config["PORT"] = PyInt(<<"8", "0", "8", "0">>)

====
